---- MODULE Spec2Model ----
(***************************************************************************)
(* A model of PNGReader.ts: the chunk parser (PNGReader.parse and the      *)
(* decode* methods), the scanline reconstruction (interlaceNone and the    *)
(* five unFilter* methods) and the PNG descriptor (validating setters and  *)
(* getPixel).  pako.inflate is an external collaborator: its outcome is a  *)
(* nondeterministic choice between an exception and a byte sequence.       *)
(***************************************************************************)
EXTENDS Integers, Sequences, FiniteSets, TLC

VARIABLES
    bytes,        \* PNGReader.bytes: the input byte sequence
    i,            \* PNGReader.i: the read cursor
    png,          \* PNGReader.png: the PNG descriptor's private fields
    dataChunks,   \* PNGReader.dataChunks: the IDAT accumulator
    header,       \* PNGReader.header: the signature once it was read
    optData,      \* FALSE iff parse was called with options.data === false
    ctl,          \* position of the control flow inside parse
    exc,          \* the exception in flight between two try/catch frames
    types,        \* the values returned by decodeChunk, in order
    zdata,        \* the ArrayBuffer decodePixels hands to inflate
    res,          \* the value pako.inflate returned
    inflateCalls, \* how many times pako.inflate was invoked
    calls,        \* the invocations of the caller's callback, in order
    uncaught,     \* TRUE when an exception left parse
    sample,       \* the outcome of the last getPixel call
    scan          \* the loop state of interlaceNone when run row by row

vars == <<bytes, i, png, dataChunks, header, optData, ctl, exc, types, zdata,
          res,
          inflateCalls, calls, uncaught, sample, scan>>

----------------------------------------------------------------------------
(* Bounds of the model *)

\* longest sequence of complete chunks that follows the signature
MaxChunks == 3

\* largest width of an image handed to the reconstructor
MaxWidth == 2

\* largest number of scanline records in a decompressed stream
MaxRecords == 2

----------------------------------------------------------------------------
(* JavaScript values *)

\* the value undefined (a read of a missing array element or property)
Undef == -1

NoError == "none"

Max(a, b) == IF a >= b THEN a ELSE b

Abs(a) == IF a < 0 THEN -a ELSE a

\* buffer[offset] as an operand of <<: a missing element converts to 0
ShiftOperand(buffer, offset) ==
    IF offset >= 0 /\ offset < Len(buffer) THEN buffer[offset + 1] ELSE 0

\* x << 24 yields a signed 32-bit integer
Shl24(x) == IF x >= 128 THEN (x - 256) * 16777216 ELSE x * 16777216

readUInt32(buffer, offset) ==
    Shl24(ShiftOperand(buffer, offset)) +
    ShiftOperand(buffer, offset + 1) * 65536 +
    ShiftOperand(buffer, offset + 2) * 256 +
    ShiftOperand(buffer, offset + 3)

readUInt8(buffer, offset) == ShiftOperand(buffer, offset)

equalBytes(a, b) ==
    /\ Len(a) = Len(b)
    /\ \A l \in 1..Len(a) : a[l] = b[l]

\* String.fromCharCode over the four type bytes; the strings the switch of
\* decodeChunk distinguishes keep their spelling, every other one is "other"
bufferToString(buffer) ==
    IF buffer = <<73, 72, 68, 82>> THEN "IHDR"
    ELSE IF buffer = <<80, 76, 84, 69>> THEN "PLTE"
    ELSE IF buffer = <<73, 68, 65, 84>> THEN "IDAT"
    ELSE IF buffer = <<73, 69, 78, 68>> THEN "IEND"
    ELSE "other"

Signature == <<137, 80, 78, 71, 13, 10, 26, 10>>

----------------------------------------------------------------------------
(* class PNG *)

NoPalette == [set |-> FALSE, bytes |-> <<>>]

NoPixels == [set |-> FALSE, byteLength |-> 0, props |-> <<>>]

NewPNG ==
    [width |-> 0, height |-> 0, bitDepth |-> 0, colorType |-> 0,
     compressionMethod |-> 0, filterMethod |-> 0, interlaceMethod |-> 0,
     colors |-> 0, alpha |-> FALSE, palette |-> NoPalette, pixels |-> NoPixels]

\* A setter's outcome: the descriptor and the error it threw, if any
Ok(p) == [png |-> p, err |-> NoError]

Throw(p, e) == [png |-> p, err |-> e]

setWidth(p, width) == Ok([p EXCEPT !.width = width])

setHeight(p, height) == Ok([p EXCEPT !.height = height])

BitDepths == {2, 4, 8, 16}

setBitDepth(p, bitDepth) ==
    IF bitDepth \notin BitDepths
    THEN Throw(p, "invalid bith depth")
    ELSE Ok([p EXCEPT !.bitDepth = bitDepth])

ColorsOf(colorType) ==
    CASE colorType = 0 -> 1
      [] colorType = 2 -> 3
      [] colorType = 3 -> 1
      [] colorType = 4 -> 2
      [] colorType = 6 -> 4
      [] OTHER -> 0

setColorType(p, colorType) ==
    IF colorType \notin {0, 2, 3, 4, 6}
    THEN Throw(p, "invalid color type")
    ELSE Ok([p EXCEPT !.colors = ColorsOf(colorType),
                      !.alpha = (colorType \in {4, 6}),
                      !.colorType = colorType])

setCompressionMethod(p, compressionMethod) ==
    IF compressionMethod # 0
    THEN Throw(p, "invalid compression method")
    ELSE Ok([p EXCEPT !.compressionMethod = compressionMethod])

setFilterMethod(p, filterMethod) ==
    IF filterMethod # 0
    THEN Throw(p, "invalid filter method")
    ELSE Ok([p EXCEPT !.filterMethod = filterMethod])

setInterlaceMethod(p, interlaceMethod) ==
    IF interlaceMethod # 0 /\ interlaceMethod # 1
    THEN Throw(p, "invalid interlace method")
    ELSE Ok([p EXCEPT !.interlaceMethod = interlaceMethod])

\* Math.pow(2, n) for the values _bitDepth can hold
Pow2(n) == CASE n = 0 -> 1 [] n = 2 -> 4 [] n = 4 -> 16
             [] n = 8 -> 256 [] n = 16 -> 65536

setPalette(p, palette) ==
    IF Len(palette) % 3 # 0
    THEN Throw(p, "incorrect PLTE chunk length")
    ELSE IF Len(palette) > Pow2(p.bitDepth) * 3
    THEN Throw(p, "palette has more colors than 2^bitdepth")
    ELSE Ok([p EXCEPT !.palette = [set |-> TRUE, bytes |-> palette]])

----------------------------------------------------------------------------
(* PNGReader: chunk decoding *)

\* s1; s2 for two statements that may throw: s2 runs only if s1 returned
Then(r, S(_)) == IF r.err # NoError THEN r ELSE S(r.png)

decodeIHDR(p, chunk) ==
    Then(setWidth(p, readUInt32(chunk, 0)), LAMBDA p1 :
    Then(setHeight(p1, readUInt32(chunk, 4)), LAMBDA p2 :
    Then(setBitDepth(p2, readUInt8(chunk, 8)), LAMBDA p3 :
    Then(setColorType(p3, readUInt8(chunk, 9)), LAMBDA p4 :
    Then(setCompressionMethod(p4, readUInt8(chunk, 10)), LAMBDA p5 :
    Then(setFilterMethod(p5, readUInt8(chunk, 11)), LAMBDA p6 :
         setInterlaceMethod(p6, readUInt8(chunk, 12))))))))

decodePLTE(p, chunk) == setPalette(p, chunk)

decodeIDAT(chunks, chunk) == Append(chunks, chunk)

----------------------------------------------------------------------------
(* PNGReader: scanline reconstruction *)

\* arr[idx]: undefined when idx is not an index that was written
Get(arr, idx) == IF idx >= 0 /\ idx < Len(arr) THEN arr[idx + 1] ELSE Undef

\* pixels[idx] = v; pixels is an ArrayBuffer, so the write creates or replaces
\* the property idx whatever the buffer's byteLength is
Set(pixels, idx, v) ==
    IF idx < Len(pixels)
    THEN [pixels EXCEPT ![idx + 1] = v]
    ELSE pixels \o [k \in 1..(idx - Len(pixels)) |-> Undef] \o <<v>>

\* (x + y) & 0xFF: NaN & 0xFF is 0
AddMask(x, y) == IF x = Undef \/ y = Undef THEN 0 ELSE (x + y) % 256

\* x >> 1: undefined >> 1 is 0
Shr1(x) == IF x = Undef THEN 0 ELSE x \div 2

\* the sum read as x + (y >> 1)
SumShr1Late(x, y) == IF x = Undef \/ y = Undef THEN 0 ELSE x + y \div 2

\* x + y >> 1, which JavaScript reads as (x + y) >> 1
SumShr1(x, y) == IF x = Undef \/ y = Undef THEN 0 ELSE (x + y) \div 2

\* for (; i < to; i++) Body
RECURSIVE For(_, _, _, _)
For(Body(_, _), pixels, from, to) ==
    IF from >= to THEN pixels ELSE For(Body, Body(pixels, from), from + 1, to)

unFilterNone(scanline, pixels, bpp, of, length) ==
    For(LAMBDA px, k : Set(px, of + k, Get(scanline, k)), pixels, 0, length)

unFilterSub(scanline, pixels, bpp, of, length) ==
    LET first == For(LAMBDA px, k : Set(px, of + k, Get(scanline, k)),
                     pixels, 0, bpp)
    IN  For(LAMBDA px, k :
              Set(px, of + k, AddMask(Get(scanline, k), Get(px, of + k - bpp))),
            first, Max(0, bpp), length)

unFilterUp(scanline, pixels, bpp, of, length) ==
    IF of - length < 0
    THEN For(LAMBDA px, k : Set(px, of + k, Get(scanline, k)),
             pixels, 0, length)
    ELSE For(LAMBDA px, k :
               Set(px, of + k,
                   AddMask(Get(scanline, k), Get(px, of + k - length))),
             pixels, 0, length)

unFilterAverage(scanline, pixels, bpp, of, length) ==
    IF of - length < 0
    THEN LET first == For(LAMBDA px, k : Set(px, of + k, Get(scanline, k)),
                          pixels, 0, bpp)
         IN  For(LAMBDA px, k :
                   Set(px, of + k,
                       AddMask(Get(scanline, k), Shr1(Get(px, of + k - bpp)))),
                 first, Max(0, bpp), length)
    ELSE LET first == For(LAMBDA px, k :
                            Set(px, of + k,
                                AddMask(Get(scanline, k),
                                        Shr1(Get(px, of - length + k)))),
                          pixels, 0, bpp)
         IN  For(LAMBDA px, k :
                   Set(px, of + k,
                       AddMask(Get(scanline, k),
                               SumShr1(Get(px, of + k - bpp),
                                       Get(px, of + k - length)))),
                 first, Max(0, bpp), length)

\* the predictor chosen at lines 374-380; an undefined operand makes p, pa, pb
\* and pc NaN, both comparisons false, and the predictor c
PaethPr(a, b, c) ==
    IF a = Undef \/ b = Undef \/ c = Undef THEN c
    ELSE LET p  == a + b - c
             pa == Abs(p - a)
             pb == Abs(p - b)
             pc == Abs(p - c)
         IN  IF pa <= pb /\ pa <= pc THEN a
             ELSE IF pb <= pc THEN b
             ELSE c

unFilterPaeth(scanline, pixels, bpp, of, length) ==
    IF of - length < 0
    THEN LET first == For(LAMBDA px, k : Set(px, of + k, Get(scanline, k)),
                          pixels, 0, bpp)
         IN  For(LAMBDA px, k :
                   Set(px, of + k,
                       AddMask(Get(scanline, k), Get(px, of + k - bpp))),
                 first, Max(0, bpp), length)
    ELSE LET first == For(LAMBDA px, k :
                            Set(px, of + k,
                                AddMask(Get(scanline, k),
                                        Get(px, of + k - length))),
                          pixels, 0, bpp)
         IN  For(LAMBDA px, k :
                   Set(px, of + k,
                       AddMask(Get(scanline, k),
                               PaethPr(Get(px, of + k - bpp),
                                       Get(px, of + k - length),
                                       Get(px, of + k - length - bpp)))),
                 first, Max(0, bpp), length)

\* slice.call(data, from, to): the elements from..to-1 that exist
Slice(data, from, to) ==
    IF from >= Len(data) THEN <<>>
    ELSE SubSeq(data, from + 1, IF to > Len(data) THEN Len(data) ELSE to)

\* Math.max(1, png.colors * png.bitDepth / 8).  The quotient is an integer
\* whenever it exceeds 1, except for colors = 3 with bitDepth = 4 (1.5), a
\* header the inputs of this model leave out.
BytesPerPixel(p) == Max(1, (p.colors * p.bitDepth) \div 8)

ColorBytesPerRow(p) == BytesPerPixel(p) * p.width

\* The state of the loop of interlaceNone before its first iteration.
\* new ArrayBuffer(n) throws a RangeError for a negative n.
LoopStart(p) ==
    IF BytesPerPixel(p) * p.width * p.height < 0
    THEN [i |-> 0, offset |-> 0, pixels |-> <<>>, err |-> "RangeError"]
    ELSE [i |-> 0, offset |-> 0, pixels |-> <<>>, err |-> NoError]

\* One iteration of the loop of interlaceNone (lines 228-243)
ScanlineStep(p, data, st) ==
    LET bpp      == BytesPerPixel(p)
        cpr      == ColorBytesPerRow(p)
        scanline == Slice(data, st.i + 1, st.i + cpr + 1)
        filter   == readUInt8(data, st.i)
        next(px) == [i |-> st.i + cpr + 1, offset |-> st.offset + cpr,
                     pixels |-> px, err |-> NoError]
    IN  CASE filter = 0 -> next(unFilterNone(scanline, st.pixels, bpp, st.offset, cpr))
          [] filter = 1 -> next(unFilterSub(scanline, st.pixels, bpp, st.offset, cpr))
          [] filter = 2 -> next(unFilterUp(scanline, st.pixels, bpp, st.offset, cpr))
          [] filter = 3 -> next(unFilterAverage(scanline, st.pixels, bpp, st.offset, cpr))
          [] filter = 4 -> next(unFilterPaeth(scanline, st.pixels, bpp, st.offset, cpr))
          [] OTHER -> [st EXCEPT !.err = "unkown filtered scanline"]

LoopRuns(data, st) == st.err = NoError /\ st.i < Len(data)

RECURSIVE RunLoop(_, _, _)
RunLoop(p, data, st) ==
    IF LoopRuns(data, st) THEN RunLoop(p, data, ScanlineStep(p, data, st)) ELSE st

\* png.pixels = pixels, reached only when no iteration threw
StorePixels(p, st) ==
    [p EXCEPT !.pixels = [set |-> TRUE,
                          byteLength |-> BytesPerPixel(p) * p.width * p.height,
                          props |-> st.pixels]]

interlaceNone(p, data) ==
    LET st == RunLoop(p, data, LoopStart(p))
    IN  IF st.err # NoError THEN Throw(p, st.err) ELSE Ok(StorePixels(p, st))

interlaceAdam7(p, data) == Throw(p, "Adam7 interlacing is not implemented yet")

----------------------------------------------------------------------------
(* PNGReader: framing *)

EndOfFile == "Unexpectedly reached end of file"

\* readBytes without the end-of-file test: slice returns the bytes there are
readBytesUnchecked(bs, cur, length) ==
    [ok |-> TRUE, i |-> cur + length,
     bytes |-> IF cur >= Len(bs) THEN <<>>
               ELSE SubSeq(bs, cur + 1,
                           IF cur + length > Len(bs) THEN Len(bs) ELSE cur + length)]

\* readBytes(length) with the cursor at cur.  The test end > bytes.length is
\* written without the sum i + length, which is the same comparison.
readBytes(bs, cur, length) ==
    IF length > Len(bs) - cur
    THEN [ok |-> FALSE, i |-> cur, bytes |-> <<>>]
    ELSE [ok |-> TRUE, i |-> cur + length,
          bytes |-> SubSeq(bs, cur + 1, cur + length)]

\* the outcome of decodeHeader: the cursor, this.header and the error thrown
decodeHeader(bs, cur, hdr) ==
    IF cur # 0
    THEN [i |-> cur, header |-> hdr,
          err |-> "file pointer should be at 0 to read the header"]
    ELSE LET r == readBytes(bs, cur, 8)
         IN  IF ~r.ok THEN [i |-> r.i, header |-> hdr, err |-> EndOfFile]
             ELSE IF ~equalBytes(r.bytes, Signature)
             THEN [i |-> r.i, header |-> hdr,
                   err |-> "invalid PNGReader file (bad signature)"]
             ELSE [i |-> r.i, header |-> r.bytes, err |-> NoError]

\* the switch of decodeChunk (lines 125-130)
Dispatch(type, p, dc, chunk) ==
    CASE type = "IHDR" -> LET r == decodeIHDR(p, chunk)
                          IN  [png |-> r.png, dataChunks |-> dc, err |-> r.err]
      [] type = "PLTE" -> LET r == decodePLTE(p, chunk)
                          IN  [png |-> r.png, dataChunks |-> dc, err |-> r.err]
      [] type = "IDAT" -> [png |-> p, dataChunks |-> decodeIDAT(dc, chunk),
                           err |-> NoError]
      [] OTHER -> [png |-> p, dataChunks |-> dc, err |-> NoError]

\* the outcome of decodeChunk: cursor, descriptor, accumulator, the type it
\* returns and the error it threw
decodeChunk(bs, cur, p, dc) ==
    LET fail(at, e) == [i |-> at, png |-> p, dataChunks |-> dc,
                        type |-> "", err |-> e]
        r1 == readBytes(bs, cur, 4)
    IN  IF ~r1.ok THEN fail(r1.i, EndOfFile)
        ELSE LET length == readUInt32(r1.bytes, 0)
             IN  IF length < 0 THEN fail(r1.i, "Bad chunk length")
        ELSE LET r2 == readBytes(bs, r1.i, 4)
             IN  IF ~r2.ok THEN fail(r2.i, EndOfFile)
        ELSE LET type == bufferToString(r2.bytes)
                 r3   == readBytes(bs, r2.i, length)
             IN  IF ~r3.ok THEN fail(r3.i, EndOfFile)
        ELSE LET r4 == readBytes(bs, r3.i, 4)
             IN  IF ~r4.ok THEN fail(r4.i, EndOfFile)
        ELSE LET d == Dispatch(type, p, dc, r3.bytes)
             IN  [i |-> r4.i, png |-> d.png, dataChunks |-> d.dataChunks,
                  type |-> type, err |-> d.err]

\* the break of the loop of parse (line 410)
StopsAfter(type, data) == (type = "IHDR" /\ ~data) \/ type = "IEND"

\* the ArrayBuffer decodePixels builds: byteLength is the summed length of the
\* chunks, and data[k++] = chunk[j] stores the bytes as its properties
RECURSIVE Concat(_)
Concat(chunks) ==
    IF chunks = <<>> THEN <<>> ELSE Head(chunks) \o Concat(Tail(chunks))

InflateInput(dc) == [byteLength |-> Len(Concat(dc)), props |-> Concat(dc)]

----------------------------------------------------------------------------
(* class PNG: sampling *)

NoSample == [kind |-> "none", x |-> 0, y |-> 0, err |-> NoError, value |-> <<>>]

\* pixels[i + k] in getPixel, where i = colors * bitDepth / 8 * (y * width + x)
\* is a fraction, hence no index that was written, when 8 does not divide
\* colors * bitDepth * (y * width + x)
PixelAt(p, x, y, k) ==
    LET n == p.colors * p.bitDepth * (y * p.width + x)
    IN  IF n % 8 # 0 THEN Undef ELSE Get(p.pixels.props, n \div 8 + k)

\* palette[v * 3 + k]: v undefined makes the index NaN
PaletteAt(p, v, k) == IF v = Undef THEN Undef ELSE Get(p.palette.bytes, v * 3 + k)

getPixel(p, x, y) ==
    LET error(e) == [kind |-> "error", x |-> x, y |-> y, err |-> e, value |-> <<>>]
        value(v) == [kind |-> "value", x |-> x, y |-> y, err |-> NoError, value |-> v]
        px(k)    == PixelAt(p, x, y, k)
    IN  IF ~p.pixels.set THEN error("pixel data is empty")
        ELSE IF x >= p.width \/ y >= p.height
        THEN error("x,y position out of bound")
        ELSE CASE p.colorType = 0 -> value(<<px(0), px(0), px(0), 255>>)
               [] p.colorType = 2 -> value(<<px(0), px(1), px(2), 255>>)
               [] p.colorType = 3 ->
                    IF ~p.palette.set THEN error("TypeError")
                    ELSE value(<<PaletteAt(p, px(0), 0), PaletteAt(p, px(0), 1),
                                 PaletteAt(p, px(0), 2), 255>>)
               [] p.colorType = 4 -> value(<<px(0), px(0), px(0), px(1)>>)
               [] p.colorType = 6 -> value(<<px(0), px(1), px(2), px(3)>>)

----------------------------------------------------------------------------
(* Inputs *)

TypeIHDR == <<73, 72, 68, 82>>

TypePLTE == <<80, 76, 84, 69>>

TypeIDAT == <<73, 68, 65, 84>>

TypeIEND == <<73, 69, 78, 68>>

\* tEXt, a chunk type decodeChunk does not interpret
TypeText == <<116, 69, 88, 116>>

\* the big-endian encoding of a value below 256
U32(n) == <<0, 0, 0, n>>

\* a complete chunk frame: length, type, data and a CRC (which is not verified)
Frame(type, chunk) == U32(Len(chunk)) \o type \o chunk \o <<0, 0, 0, 0>>

IHDRData(w, h, bd, ct, cm, fm, il) == U32(w) \o U32(h) \o <<bd, ct, cm, fm, il>>

PaletteBytes(n) == [k \in 1..n |-> (k * 40) % 256]

ChunkMenu ==
    { Frame(TypeIHDR, IHDRData(1, 1, 8, 3, 0, 0, 0)),   \* indexed, 8 bits
      Frame(TypeIHDR, IHDRData(1, 1, 2, 3, 0, 0, 0)),   \* indexed, 2 bits
      Frame(TypeIHDR, IHDRData(2, 1, 8, 0, 0, 0, 1)),   \* grayscale, Adam7
      Frame(TypePLTE, PaletteBytes(3)),
      Frame(TypePLTE, PaletteBytes(15)),
      Frame(TypePLTE, PaletteBytes(4)),
      Frame(TypeIDAT, <<120, 156>>),
      Frame(TypeIEND, <<>>),
      Frame(TypeText, <<65>>) }

ChunkSeqs == UNION { [1..k -> ChunkMenu] : k \in 0..MaxChunks }

RECURSIVE Flatten(_)
Flatten(frames) ==
    IF frames = <<>> THEN <<>> ELSE Head(frames) \o Flatten(Tail(frames))

\* A truncated final frame: a frame cut inside its length, its type or its
\* CRC, and frames that declare more data than follows (256 bytes, and 2^31
\* bytes, whose length field has its top bit set)
Tails ==
    { SubSeq(Frame(TypeIDAT, <<120, 156>>), 1, k) : k \in {2, 6, 12} }
    \cup { <<0, 0, 1, 0>> \o TypeIDAT \o <<120, 156>>,
           <<128, 0, 0, 0>> \o TypeIDAT \o <<120, 156>> }

Inputs ==
    { Signature \o Flatten(cs) \o t : cs \in ChunkSeqs, t \in Tails \cup {<<>>} }
    \cup { <<>>, SubSeq(Signature, 1, 5),
           <<137, 80, 78, 71, 13, 10, 26, 11>>
               \o Frame(TypeIHDR, IHDRData(1, 1, 8, 3, 0, 0, 0)) }

\* what pako.inflate may return
InflateOutputs == { <<>>, <<0, 5>>, <<9, 0>> }

----------------------------------------------------------------------------
(* PNGReader.parse *)

Init ==
    /\ bytes \in Inputs
    /\ optData \in BOOLEAN
    /\ i = 0
    /\ png = NewPNG
    /\ dataChunks = <<>>
    /\ header = <<>>
    /\ ctl = "header"
    /\ exc = NoError
    /\ types = <<>>
    /\ zdata = InflateInput(<<>>)
    /\ res = <<>>
    /\ inflateCalls = 0
    /\ calls = <<>>
    /\ uncaught = FALSE
    /\ sample = NoSample
    /\ scan = LoopStart(NewPNG)

\* this.decodeHeader() and the first test of the while loop
DecodeHeader ==
    /\ ctl = "header"
    /\ LET r == decodeHeader(bytes, i, header)
       IN  /\ i' = r.i
           /\ header' = r.header
           /\ IF r.err # NoError
              THEN exc' = r.err /\ ctl' = "parseCatch"
              ELSE /\ exc' = exc
                   /\ ctl' = IF r.i < Len(bytes) THEN "chunks" ELSE "decodePixels"
    /\ UNCHANGED <<bytes, png, dataChunks, optData, types, zdata, res,
                   inflateCalls, calls, uncaught, sample, scan>>

\* one iteration of the while loop: decodeChunk, the break and the loop test
DecodeChunk ==
    /\ ctl = "chunks"
    /\ LET r == decodeChunk(bytes, i, png, dataChunks)
       IN  /\ i' = r.i
           /\ png' = r.png
           /\ dataChunks' = r.dataChunks
           /\ IF r.err # NoError
              THEN exc' = r.err /\ ctl' = "parseCatch" /\ types' = types
              ELSE /\ exc' = exc
                   /\ types' = Append(types, r.type)
                   /\ ctl' = IF StopsAfter(r.type, optData) \/ r.i >= Len(bytes)
                             THEN "decodePixels" ELSE "chunks"
    /\ UNCHANGED <<bytes, header, optData, zdata, res, inflateCalls, calls,
                   uncaught, sample, scan>>

\* decodePixels up to pako.inflate, which throws
InflateThrows ==
    /\ ctl = "decodePixels"
    /\ zdata' = InflateInput(dataChunks)
    /\ inflateCalls' = inflateCalls + 1
    /\ exc' = "inflate failed"
    /\ ctl' = "inflateCatch"
    /\ UNCHANGED <<bytes, i, png, dataChunks, header, optData, types, res,
                   calls, uncaught, sample, scan>>

\* decodePixels up to pako.inflate, which returns
InflateReturns ==
    /\ ctl = "decodePixels"
    /\ zdata' = InflateInput(dataChunks)
    /\ inflateCalls' = inflateCalls + 1
    /\ \E out \in InflateOutputs : res' = out
    /\ ctl' = "inflateTry"
    /\ UNCHANGED <<bytes, i, png, dataChunks, header, optData, exc, types,
                   calls, uncaught, sample, scan>>

\* one invocation of the caller's callback
Invoke(err, hasPng, p) ==
    Append(calls, [err |-> err, hasPng |-> hasPng,
                   png |-> IF hasPng THEN p ELSE NewPNG])

\* callback(null, res) inside the try of inflate: the function decodePixels
\* passes runs the reconstruction and calls the caller's callback with the
\* error, if any, and the descriptor
InflateTry ==
    /\ ctl = "inflateTry"
    /\ LET r == IF png.interlaceMethod = 0
                THEN interlaceNone(png, res) ELSE interlaceAdam7(png, res)
       IN  /\ png' = r.png
           /\ calls' = Invoke(r.err, TRUE, r.png)
    /\ \E throws \in BOOLEAN :
          IF throws
          THEN exc' = "callback threw" /\ ctl' = "inflateCatch"
          ELSE exc' = exc /\ ctl' = "done"
    /\ UNCHANGED <<bytes, i, dataChunks, header, optData, types, zdata, res,
                   inflateCalls, uncaught, sample, scan>>

\* callback(e, res) in the catch of inflate: the error goes to the caller's
\* callback together with the descriptor
InflateCatch ==
    /\ ctl = "inflateCatch"
    /\ calls' = Invoke(exc, TRUE, png)
    /\ \E throws \in BOOLEAN :
          IF throws
          THEN exc' = "callback threw" /\ ctl' = "parseCatch"
          ELSE exc' = exc /\ ctl' = "done"
    /\ UNCHANGED <<bytes, i, png, dataChunks, header, optData, types, zdata,
                   res, inflateCalls, uncaught, sample, scan>>

\* callback(e) in the catch of parse
ParseCatch ==
    /\ ctl = "parseCatch"
    /\ calls' = Invoke(exc, FALSE, png)
    /\ \E throws \in BOOLEAN : uncaught' = throws
    /\ ctl' = "done"
    /\ UNCHANGED <<bytes, i, png, dataChunks, header, optData, exc, types,
                   zdata, res, inflateCalls, sample, scan>>

\* the coordinates the caller samples: inside and outside the menu's images
Coordinates == { <<0, 0>>, <<1, 0>>, <<0, 1>> }

\* the caller samples the descriptor the callback handed over (once: getPixel
\* leaves the descriptor as it is)
GetPixel ==
    /\ ctl = "done"
    /\ sample = NoSample
    /\ \E k \in 1..Len(calls) : calls[k].hasPng
    /\ \E c \in Coordinates : sample' = getPixel(png, c[1], c[2])
    /\ UNCHANGED <<bytes, i, png, dataChunks, header, optData, ctl, exc, types,
                   zdata, res, inflateCalls, calls, uncaught, scan>>

Next ==
    \/ DecodeHeader
    \/ DecodeChunk
    \/ InflateThrows
    \/ InflateReturns
    \/ InflateTry
    \/ InflateCatch
    \/ ParseCatch
    \/ GetPixel

Spec == Init /\ [][Next]_vars

----------------------------------------------------------------------------
(* Properties of parse *)

\* the unsigned 32-bit value of the four bytes at pos, for a top byte < 128
DeclaredLength(bs, pos) ==
    bs[pos + 1] * 16777216 + bs[pos + 2] * 65536 + bs[pos + 3] * 256 + bs[pos + 4]

\* a chunk frame starts at pos and the bytes end before its length, type,
\* declared data or CRC are complete
TruncatedAt(bs, pos) ==
    /\ pos < Len(bs)
    /\ \/ Len(bs) - pos < 12
       \/ bs[pos + 1] >= 128
       \/ DeclaredLength(bs, pos) > Len(bs) - pos - 12

\* the length field of the frame at pos is incomplete or has its top bit clear
TopBitClear(bs, pos) == Len(bs) - pos < 4 \/ bs[pos + 1] < 128

\* where the frame after n complete frames starts
RECURSIVE FrameStart(_, _, _)
FrameStart(bs, pos, n) ==
    IF n = 0 \/ pos >= Len(bs) \/ TruncatedAt(bs, pos) THEN pos
    ELSE FrameStart(bs, pos + 12 + DeclaredLength(bs, pos), n - 1)

\* the frames that follow the signature end in a truncated one
FinalFrameTruncated(bs) ==
    /\ Len(bs) >= 8
    /\ TruncatedAt(bs, FrameStart(bs, 8, Len(bs)))

ValidSignature == Len(bytes) >= 8 /\ SubSeq(bytes, 1, 8) = Signature

\* the chunk types of the complete frames from pos on
RECURSIVE FrameTypes(_, _)
FrameTypes(bs, pos) ==
    IF pos >= Len(bs) \/ TruncatedAt(bs, pos) THEN <<>>
    ELSE <<bufferToString(SubSeq(bs, pos + 5, pos + 8))>>
             \o FrameTypes(bs, pos + 12 + DeclaredLength(bs, pos))

\* a well-formed file: the signature, one IHDR chunk of 13 bytes with valid
\* fields first, a PLTE chunk before the image data if the image is indexed,
\* at least one IDAT chunk, IEND last, and nothing cut off
WellFormed ==
    LET ts == FrameTypes(bytes, 8)
    IN  /\ ValidSignature
        /\ ~FinalFrameTruncated(bytes)
        /\ Len(ts) >= 3
        /\ ts[1] = "IHDR"
        /\ SubSeq(bytes, 9, 12) = U32(13)
        /\ decodeIHDR(NewPNG, SubSeq(bytes, 17, 29)).err = NoError
        /\ bytes[17 + 3] > 0 /\ bytes[17 + 7] > 0
        /\ ts[Len(ts)] = "IEND"
        /\ \A k \in 2..Len(ts) : ts[k] # "IHDR"
        /\ \A k \in 1..(Len(ts) - 1) : ts[k] # "IEND"
        /\ \E k \in 1..Len(ts) : ts[k] = "IDAT"
        /\ bytes[17 + 9] = 3 => ts[2] = "PLTE"

\* C1: parse ends in exactly one of two outcomes: the callback receives a
\* fully reconstructed descriptor and no error, or an error and no descriptor
C1_ErrorXorDescriptor ==
    \A k \in 1..Len(calls) :
        \/ calls[k].err = NoError /\ calls[k].hasPng /\ calls[k].png.pixels.set
        \/ calls[k].err # NoError /\ ~calls[k].hasPng

\* C2: with data === false and a well-formed file, iteration stops after IHDR,
\* inflate is never invoked, no error is reported and the descriptor carries
\* the header's fields with pixels still null
C2_HeaderOnly ==
    (WellFormed /\ ~optData) =>
        /\ inflateCalls = 0
        /\ Len(types) <= 1
        /\ \A k \in 1..Len(calls) :
              /\ calls[k].err = NoError
              /\ calls[k].hasPng
              /\ ~calls[k].png.pixels.set
              /\ calls[k].png.width = readUInt32(bytes, 16)
              /\ calls[k].png.height = readUInt32(bytes, 20)
              /\ calls[k].png.bitDepth = bytes[25]
              /\ calls[k].png.colorType = bytes[26]
        /\ (ctl = "done" => calls # <<>>)

\* C3: a chunk of another type decoded before IHDR makes the decode fail; its
\* data reaches neither the palette nor the IDAT accumulator
C3_HeaderFirst ==
    /\ types # <<>> => types[1] = "IHDR"
    /\ (\A k \in 1..Len(types) : types[k] # "IHDR") =>
           dataChunks = <<>> /\ ~png.palette.set
    /\ (ValidSignature /\ ctl = "done" /\ ~TruncatedAt(bytes, 8)
          /\ Len(bytes) > 8 /\ SubSeq(bytes, 13, 16) # TypeIHDR) =>
           calls[1].err = "chunk before header"

\* C7: whenever the palette is set, its length is a multiple of 3 and at most
\* 3 * 2^bitDepth for the descriptor's current bitDepth
C7_PaletteInvariant ==
    png.palette.set =>
        /\ Len(png.palette.bytes) % 3 = 0
        /\ Len(png.palette.bytes) <= 3 * Pow2(png.bitDepth)

\* C8: for colorType 3 with pixels populated, getPixel at valid coordinates
\* fails when the stored index is not below the number of palette triples, and
\* never returns a tuple with an undefined component
C8_IndexChecked ==
    LET index   == PixelAt(png, sample.x, sample.y, 0)
        triples == Len(png.palette.bytes) \div 3
    IN  (sample.kind # "none" /\ png.colorType = 3 /\ png.pixels.set
           /\ sample.x < png.width /\ sample.y < png.height
           /\ index # Undef /\ index >= triples) =>
            /\ sample.kind = "error"
            /\ \A k \in 1..Len(sample.value) : sample.value[k] # Undef

\* C10: one call to parse invokes the caller's callback exactly once
C10_ExactlyOnce ==
    /\ Len(calls) <= 1
    /\ ctl = "done" => Len(calls) = 1

----------------------------------------------------------------------------
(* decodeIHDR over a range of headers *)

WidthFields == { <<0, 0, 0, 0>>, <<0, 0, 0, 1>>, <<0, 0, 1, 0>>, <<128, 0, 0, 1>> }

HeightFields == { <<0, 0, 0, 0>>, <<0, 0, 0, 2>> }

HeaderChunks ==
    { w \o h \o <<bd, ct, cm, fm, il>> :
        w \in WidthFields, h \in HeightFields,
        bd \in {0, 1, 2, 3, 4, 8, 16, 32}, ct \in 0..7,
        cm \in {0, 1}, fm \in {0, 1}, il \in {0, 1, 2} }

InitIHDR ==
    /\ bytes \in { Signature \o Frame(TypeIHDR, c) : c \in HeaderChunks }
    /\ optData = TRUE
    /\ i = 0
    /\ png = NewPNG
    /\ dataChunks = <<>>
    /\ header = <<>>
    /\ ctl = "header"
    /\ exc = NoError
    /\ types = <<>>
    /\ zdata = InflateInput(<<>>)
    /\ res = <<>>
    /\ inflateCalls = 0
    /\ calls = <<>>
    /\ uncaught = FALSE
    /\ sample = NoSample
    /\ scan = LoopStart(NewPNG)

NextIHDR ==
    \/ DecodeHeader
    \/ DecodeChunk

SpecIHDR == InitIHDR /\ [][NextIHDR]_vars

\* the 13 bytes of the IHDR chunk that follows the signature
HeaderBytes == SubSeq(bytes, 17, 29)

\* the header satisfies the conditions of the claim
HeaderValid(c) ==
    /\ \E k \in 1..4 : c[k] # 0
    /\ \E k \in 5..8 : c[k] # 0
    /\ c[9] \in {1, 2, 4, 8, 16}
    /\ c[10] \in {0, 2, 3, 4, 6}
    /\ c[11] = 0
    /\ c[12] = 0
    /\ c[13] \in {0, 1}

\* the field holds the unsigned big-endian value of the four bytes at pos
HoldsUnsigned(field, c, pos) ==
    c[pos + 1] < 128 /\ field = DeclaredLength(c, pos)

\* C5: decodeIHDR accepts a 13-byte header iff width > 0, height > 0,
\* bitDepth in {1,2,4,8,16}, colorType in {0,2,3,4,6}, compressionMethod = 0,
\* filterMethod = 0 and interlaceMethod in {0,1}; an accepted header's values
\* are the descriptor's fields
C5_AcceptIff ==
    ctl \in {"parseCatch", "decodePixels"} =>
        /\ (exc = NoError) <=> HeaderValid(HeaderBytes)
        /\ exc = NoError =>
              /\ HoldsUnsigned(png.width, HeaderBytes, 0)
              /\ HoldsUnsigned(png.height, HeaderBytes, 4)
              /\ png.bitDepth = HeaderBytes[9]
              /\ png.colorType = HeaderBytes[10]
              /\ png.compressionMethod = HeaderBytes[11]
              /\ png.filterMethod = HeaderBytes[12]
              /\ png.interlaceMethod = HeaderBytes[13]

----------------------------------------------------------------------------
(* interlaceNone, one scanline at a time *)

\* the filtered bytes of a stream repeat one of these patterns
Patterns == [0..2 -> {1, 3, 128, 255}]

\* a stream of n records of 1 + cpr bytes: the filter-type bytes f and the
\* filtered bytes of pattern pat
Stream(n, cpr, f, pat) ==
    [k \in 1..(n * (cpr + 1)) |->
        IF (k - 1) % (cpr + 1) = 0
        THEN f[(k - 1) \div (cpr + 1) + 1]
        ELSE pat[(k - 1) % 3]]

\* the filter-type bytes of n records: the types 0..4, and an unknown type (5)
\* in the last record
Filters(n) == { f \in [1..n -> 0..5] : \A k \in 1..(n - 1) : f[k] <= 4 }

\* the streams handed to interlaceNone for a descriptor: up to MaxRecords
\* complete records, and streams whose last record lacks its last byte
Streams(p) ==
    LET cpr == ColorBytesPerRow(p)
    IN  UNION { { Stream(n, cpr, f, pat) : f \in Filters(n), pat \in Patterns }
                \cup { LET d == Stream(n, cpr, f, [k \in 0..2 |-> 255])
                       IN  SubSeq(d, 1, Len(d) - 1) :
                         f \in IF n = 0 THEN {} ELSE Filters(n) } :
                n \in 0..MaxRecords }

\* the heights of the images handed to the reconstructor
Heights == {1, 2}

\* the descriptors decodeIHDR produces for 8-bit grayscale (1 byte per pixel)
\* and 8-bit grayscale with alpha (2 bytes per pixel)
Descriptors ==
    { decodeIHDR(NewPNG, IHDRData(w, h, 8, ct, 0, 0, 0)).png :
        w \in 1..MaxWidth, h \in Heights, ct \in {0, 4} }

InitFilter ==
    /\ png \in Descriptors
    /\ res \in Streams(png)
    /\ scan = LoopStart(png)
    /\ ctl = "rows"
    /\ bytes = <<>>
    /\ optData = TRUE
    /\ i = 0
    /\ dataChunks = <<>>
    /\ header = <<>>
    /\ exc = NoError
    /\ types = <<>>
    /\ zdata = InflateInput(<<>>)
    /\ inflateCalls = 0
    /\ calls = <<>>
    /\ uncaught = FALSE
    /\ sample = NoSample

\* one iteration of the loop of interlaceNone
Scanline ==
    /\ ctl = "rows"
    /\ LoopRuns(res, scan)
    /\ scan' = ScanlineStep(png, res, scan)
    /\ UNCHANGED <<bytes, i, png, dataChunks, header, optData, ctl, exc, types,
                   zdata, res, inflateCalls, calls, uncaught, sample>>

\* the loop ended: png.pixels = pixels
Store ==
    /\ ctl = "rows"
    /\ ~LoopRuns(res, scan)
    /\ scan.err = NoError
    /\ png' = StorePixels(png, scan)
    /\ ctl' = "done"
    /\ UNCHANGED <<bytes, i, dataChunks, header, optData, exc, types, zdata,
                   res, inflateCalls, calls, uncaught, sample, scan>>

\* an iteration threw: interlaceNone is left with png.pixels as it was
Abort ==
    /\ ctl = "rows"
    /\ scan.err # NoError
    /\ exc' = scan.err
    /\ ctl' = "done"
    /\ UNCHANGED <<bytes, i, png, dataChunks, header, optData, types, zdata,
                   res, inflateCalls, calls, uncaught, sample, scan>>

NextFilter ==
    \/ Scanline
    \/ Store
    \/ Abort

SpecFilter == InitFilter /\ [][NextFilter]_vars

\* the predictor of filter type k as the PNG recommendation defines it
Predictor(k, a, b, c) ==
    CASE k = 0 -> 0
      [] k = 1 -> a
      [] k = 2 -> b
      [] k = 3 -> (a + b) \div 2
      [] k = 4 -> LET p  == a + b - c
                      da == Abs(p - a)
                      db == Abs(p - b)
                      dc == Abs(p - c)
                  IN  IF da <= db /\ da <= dc THEN a
                      ELSE IF db <= dc THEN b
                      ELSE c

\* the records the loop has been through
RecordsDone == scan.i \div (ColorBytesPerRow(png) + 1)

\* record r lies within the decompressed stream
RecordComplete(r) == (r + 1) * (ColorBytesPerRow(png) + 1) <= Len(res)

FilterOf(r) == res[r * (ColorBytesPerRow(png) + 1) + 1]

Filt(r, x) == res[r * (ColorBytesPerRow(png) + 1) + 1 + x + 1]

\* the reconstructed byte x of row r
Recon(r, x) == Get(scan.pixels, r * ColorBytesPerRow(png) + x)

\* the byte written for position x of row r is the reference reconstruction
ReconRight(r, x) ==
    LET bpp == BytesPerPixel(png)
        a   == IF x >= bpp THEN Recon(r, x - bpp) ELSE 0
        b   == IF r > 0 THEN Recon(r - 1, x) ELSE 0
        c   == IF r > 0 /\ x >= bpp THEN Recon(r - 1, x - bpp) ELSE 0
    IN  Recon(r, x) = (Filt(r, x) + Predictor(FilterOf(r), a, b, c)) % 256

\* C6: for every filter type 0..4, every row and every byte position x, the
\* byte written equals (filt(x) + pred_k(a, b, c)) mod 256, with a = c = 0 for
\* the first bpp bytes of a row and b = c = 0 for the first row
C6_Reconstruction ==
    \A r \in 0..(RecordsDone - 1) :
        RecordComplete(r) =>
            \A x \in 0..(ColorBytesPerRow(png) - 1) : ReconRight(r, x)

\* a byte of a second row went through the Paeth filter with its three
\* neighbours in play and the predictors b and c tied ahead of a
C6_Witness ==
    /\ RecordsDone = 2
    /\ RecordComplete(1)
    /\ FilterOf(1) = 4
    /\ \E x \in BytesPerPixel(png)..(ColorBytesPerRow(png) - 1) :
          LET a == Recon(1, x - BytesPerPixel(png))
              b == Recon(0, x)
              c == Recon(0, x - BytesPerPixel(png))
              p == a + b - c
          IN  /\ b # c
              /\ Abs(p - b) = Abs(p - c)
              /\ Abs(p - a) > Abs(p - b)
              /\ Recon(1, x) = (Filt(1, x) + b) % 256

\* C9: the reconstructor goes through exactly height records, every index it
\* writes lies in [0, stride * height), and it reads no byte beyond the end of
\* the decompressed stream
C9_WithinBuffer ==
    LET cpr == ColorBytesPerRow(png)
    IN  /\ Len(scan.pixels) <= cpr * png.height
        /\ RecordsDone <= png.height
        /\ scan.i <= Len(res)
        /\ (ctl = "done" /\ exc = NoError) => RecordsDone = png.height

----------------------------------------------------------------------------
(* Truncated input *)

\* the frame at which the chunk loop stood when it last called decodeChunk
CurrentFrame == FrameStart(bytes, 8, Len(types))

\* the chunk loop ended in an exception thrown while it decoded a truncated
\* frame whose length field is incomplete or has its top bit clear
StoppedAtTruncated ==
    /\ header = Signature
    /\ ctl \in {"parseCatch", "done"}
    /\ inflateCalls = 0
    /\ TruncatedAt(bytes, CurrentFrame)
    /\ TopBitClear(bytes, CurrentFrame)

EndOfFileReported ==
    /\ ctl = "parseCatch" => exc = EndOfFile
    /\ ctl = "done" => calls[1].err = EndOfFile /\ ~calls[1].hasPng
    /\ ~png.pixels.set

\* C4 as stated: a valid signature followed by frames of which the last is
\* truncated makes parse report the end-of-file error and never set the pixel
\* buffer, and the cursor never exceeds bytes.length
C4_Original ==
    /\ (ValidSignature /\ FinalFrameTruncated(bytes) /\ ctl = "done") =>
           calls[1].err = EndOfFile /\ ~png.pixels.set
    /\ i <= Len(bytes)

\* C4, amended: when the chunk loop arrives at a truncated frame whose length
\* field is incomplete or has its top bit clear, parse reports the end-of-file
\* error and never sets the pixel buffer; the cursor never decreases and never
\* exceeds bytes.length
C4_Truncated ==
    /\ [](StoppedAtTruncated => EndOfFileReported)
    /\ [](i <= Len(bytes))
    /\ [][i' >= i]_vars

\* parse ended at a truncated frame that follows a decoded chunk
C4_Witness ==
    /\ StoppedAtTruncated
    /\ ctl = "done"
    /\ Len(types) >= 1
    /\ Len(bytes) - CurrentFrame >= 4
    /\ calls[1].err = EndOfFile

====
